---------------------------- MODULE Spec2Model ----------------------------
(***************************************************************************)
(* A model of xsort (src/xsort.c): the work-stack engine, the odd-even     *)
(* base-case sorter, the rotator, the partitioner and the parity merger.   *)
(*                                                                         *)
(* Buffers are functions over the C indices 0..n-1.  Elements are opaque   *)
(* 64-bit tokens; the model uses the handles 1..n, and the context `arg`   *)
(* maps a handle to the key the comparator reads, so that two elements     *)
(* with equal keys stay distinguishable (stability, duplication).          *)
(*                                                                         *)
(* The comparator is foreign code.  It is modelled by the set of signs     *)
(* (-1, 0, 1) a call may return; every operator that calls it returns the  *)
(* set of its possible outcomes.                                           *)
(***************************************************************************)
EXTENDS Integers, Sequences, FiniteSets, TLC

VARIABLES
    data,            \* the caller's buffer `ptr` (xsort.c:170)
    swap,            \* the auxiliary buffer (xsort.c:172)
    cmp,             \* the comparator passed to xsort
    arg,             \* its context: handle -> key
    stk,             \* the live frames stk[0..stack_depth] (xsort.c:177)
    frame_capacity,  \* xsort.c:175
    pc,              \* "loop": in the while loop; "done": xsort has returned
    input,           \* ghost: the buffer as it was when xsort was called
    oob,             \* ghost: some access fell outside a buffer
    iters,           \* ghost: number of engine iterations so far
    last,            \* ghost: what the last engine iteration did
    unit             \* the call under test of the helper specifications

vars == <<data, swap, cmp, arg, stk, frame_capacity, pc, input, oob, iters, last, unit>>

----------------------------------------------------------------------------
(* Bounds of the model *)

\* inputs of length 0..MaxLen are enumerated with every key assignment
MaxLen == 8
\* keys of the enumerated inputs are 0..MaxKey
MaxKey == 1
\* patterned inputs (ascending, descending, scrambled) have length 0..MaxBigLen
MaxBigLen == 33
\* the patterns' parameter ranges over 1..MaxStep
MaxStep == 3
\* inputs sorted with a comparator that answers arbitrarily have length 0..MaxAnyLen
MaxAnyLen == 6
\* the helper specification of the parity merger uses runs of length 1..MaxRun
MaxRun == 4
\* the helper specification of the partitioner uses run lengths 0..MaxElements
MaxElements == 64
\* the helper specification of the base-case sorter sorts runs of length
\* 0..MaxSweepAnyLen with the comparator that answers arbitrarily
MaxSweepAnyLen == 5
\* the termination check sorts inputs of length 0..MaxLiveAnyLen with the
\* comparator that answers arbitrarily
MaxLiveAnyLen == 3
\* the helper specification of the frame stack lets the stack hold up to
\* MaxFrames frames
MaxFrames == 260

(* Program constants *)

\* runs of at most this many elements go to the base-case sorter
BaseMax == 7
\* initial capacity of the frame stack
InitCapacity == 128
\* what an uninitialised or out-of-bounds element reads as (no handle is 0)
Garbage == 0

----------------------------------------------------------------------------
(* Buffers *)

Rd(buf, i) == IF i \in DOMAIN buf THEN buf[i] ELSE Garbage

Wr(buf, i, v) == IF i \in DOMAIN buf THEN [buf EXCEPT ![i] = v] ELSE buf

\* some index of S lies outside buf
Outside(buf, S) == \E i \in S : i \notin DOMAIN buf

\* memcpy / memmove of count elements: every source element is read before
\* any destination element is written (memmove semantics; the memcpy calls
\* of rotate never overlap)
memmove(dst, d0, src, s0, count) ==
    [i \in DOMAIN dst |->
        IF i \in d0 .. (d0 + count - 1) THEN Rd(src, s0 + (i - d0)) ELSE dst[i]]

\* the indices a memcpy / memmove of count elements to index d0 assigns
Assigned(d0, count) == d0 .. (d0 + count - 1)

----------------------------------------------------------------------------
(* The comparator *)

\* the comparators the model passes to xsort: total preorders of the keys,
Consistent == {"key_order", "reverse_order", "all_equal"}
\* and functions that are no ordering at all ("any" answers arbitrarily)
Broken == {"returns_one", "returns_minus_one", "not_equal", "greater_equal", "cyclic", "any"}

Sign(x) == IF x > 0 THEN 1 ELSE IF x < 0 THEN -1 ELSE 0

\* the signs  cmp(&a, &b, arg)  may return for comparator c
CmpOf(c, keys, a, b) ==
    IF a = Garbage \/ b = Garbage THEN {-1, 0, 1}
    ELSE CASE c = "key_order"         -> {Sign(keys[a] - keys[b])}
           [] c = "reverse_order"     -> {Sign(keys[b] - keys[a])}
           [] c = "all_equal"         -> {0}
           [] c = "returns_one"       -> {1}
           [] c = "returns_minus_one" -> {-1}
           [] c = "not_equal"         -> {IF keys[a] # keys[b] THEN 1 ELSE 0}
           [] c = "greater_equal"     -> {IF keys[a] >= keys[b] THEN 1 ELSE 0}
           [] c = "cyclic"            -> {IF keys[a] = keys[b] THEN 0
                                          ELSE IF (keys[a] - keys[b]) % 3 = 1 THEN 1 ELSE -1}
           [] OTHER                   -> {-1, 0, 1}

Cmp(a, b) == CmpOf(cmp, arg, a, b)

----------------------------------------------------------------------------
(* xchg_ctx, xsort.c:83-90 *)

\* (a fault: exchange on ties too)
XchgResOnTie(c) == c >= 0

\* _res = cmp(&seg[0], &seg[1], arg) > 0
XchgRes(c) == c > 0

\* s = [seg, cmps, oob, wrote]; p is the index of seg[0] of the macro.  Yields
\* the states after the exchange, each with the macro's value `res`.  wrote
\* is a ghost: the indices assigned so far (the macro assigns both elements
\* whether it exchanges them or not).
xchg_ctx(s, p) ==
    { LET res  == IF XchgRes(c) THEN 1 ELSE 0
          swp  == Rd(s.seg, p + (1 - res))
          seg0 == Wr(s.seg, p, Rd(s.seg, p + res))
          seg1 == Wr(seg0, p + 1, swp)
      IN  [seg |-> seg1, cmps |-> s.cmps + 1,
           oob |-> s.oob \/ Outside(s.seg, {p, p + 1}), res |-> res,
           wrote |-> s.wrote \cup {p, p + 1}]
      : c \in Cmp(Rd(s.seg, p), Rd(s.seg, p + 1)) }

Plain(x) == [seg |-> x.seg, cmps |-> x.cmps, oob |-> x.oob, wrote |-> x.wrote]

----------------------------------------------------------------------------
(* oddeven_sort_ctx, xsort.c:92-132 *)

\* the inner do-while (xsort.c:105-110): S is a set of states with the flag
\* itr, p the index of `pair` relative to seg, base the index of seg[0].
\* The ghost fields sweeps and xch count the sweeps begun so far and the
\* exchanges of the current sweep.
\* `pair >= seg` is decided on the indices: the pointer one or two elements
\* before seg is formed and compared, never dereferenced.
RECURSIVE InnerSweep(_, _, _)
InnerSweep(S, base, p) ==
    LET T == UNION { { [seg |-> x.seg, cmps |-> x.cmps, oob |-> x.oob, wrote |-> x.wrote,
                        itr |-> IF x.res = 1 THEN 1 ELSE s.itr,
                        sweeps |-> s.sweeps, xch |-> s.xch + x.res]
                       : x \in xchg_ctx(s, base + p) } : s \in S }
    IN  IF p - 2 >= 0 THEN InnerSweep(T, base, p - 2) ELSE T

\* (a fault: start at the second last element)
ElemStartSecondLast(elements) == elements - 2

\* index of `elem` relative to seg (xsort.c:101)
ElemStart(elements) == elements - 3

\* (a fault: the sweep budget is halved instead of decremented)
SweepsLeftHalved(elements) == elements \div 2

\* `--elements` of the outer loop condition (xsort.c:111)
SweepsLeft(elements) == elements - 1

\* the outer do-while (xsort.c:102-111); z and elements are the values
\* before the body runs, elem is fixed
RECURSIVE OuterSweeps(_, _, _, _, _)
OuterSweeps(S, base, elem, z, elements) ==
    LET z1   == ~z
        begun == { [s EXCEPT !.sweeps = @ + 1, !.xch = 0] : s \in S }
        swept == InnerSweep(begun, base, elem + (IF z1 THEN 1 ELSE 0))
        stop  == { s \in swept : s.itr = 0 }
        go    == { [s EXCEPT !.itr = 0] : s \in { t \in swept : t.itr # 0 } }
    IN  stop \cup
        (IF go = {} \/ SweepsLeft(elements) = 0 THEN go
         ELSE OuterSweeps(go, base, elem, z1, SweepsLeft(elements)))

\* (a fault: `case 1` is missing)
NoWorkZeroOnly(elements) == elements = 0

\* case 1: case 0: return (xsort.c:128-130)
NoWork(elements) == elements \in {0, 1}

\* default (xsort.c:96-113): the results [seg, cmps, oob, itr, sweeps, xch]
oddeven_default(buf, base, elements) ==
    OuterSweeps({[seg |-> buf, cmps |-> 0, oob |-> FALSE, wrote |-> {},
                  itr |-> 1, sweeps |-> 0, xch |-> 0]},
                base, ElemStart(elements), TRUE, elements)

\* (a fault: case 3 returns after its second exchange, whatever it did)
oddeven_case_3_returns(s0, base) ==
    UNION { { Plain(y) : y \in xchg_ctx(Plain(x), base + 1) }
            : x \in xchg_ctx(s0, base) }

\* case 3 and its fall through to case 2 (xsort.c:114-126)
oddeven_case_3(s0, base) ==
    UNION { UNION { IF y.res = 0 THEN {Plain(y)}
                    ELSE { Plain(w) : w \in xchg_ctx(Plain(y), base) }
                    : y \in xchg_ctx(Plain(x), base + 1) }
            : x \in xchg_ctx(s0, base) }

\* the set of results [seg, cmps, oob, wrote, sweeps, xch] of sorting
\* buf[base .. base+elements-1]; sweeps and xch are ghosts: the number of
\* sweeps of the default case and the exchanges of its last sweep
oddeven_sort_ctx(buf, base, elements) ==
    LET s0 == [seg |-> buf, cmps |-> 0, oob |-> FALSE, wrote |-> {}]
        Result(x, sweeps, xch) ==
            [seg |-> x.seg, cmps |-> x.cmps, oob |-> x.oob, wrote |-> x.wrote,
             sweeps |-> sweeps, xch |-> xch]
    IN  CASE NoWork(elements) -> { Result(s0, 0, 0) }
          [] elements = 2 -> { Result(x, 0, 0) : x \in xchg_ctx(s0, base) }
          [] elements = 3 -> { Result(x, 0, 0) : x \in oddeven_case_3(s0, base) }
          [] OTHER -> { Result(x, x.sweeps, x.xch) : x \in oddeven_default(buf, base, elements) }

----------------------------------------------------------------------------
(* rotate, xsort.c:61-66 *)

\* the element of a one-element set; binding an intermediate buffer as the
\* element of a one-element set names its value
Only(S) == CHOOSE x \in S : TRUE

\* (a fault: the saved elements are copied back to &array[left])
rotate_back_at_left(array, base, tmp, left, right) ==
    Only({ [array |-> memmove(arr1, base + left, tmp1, 0, left), swap |-> tmp1,
            wrote |-> Assigned(base, right) \cup Assigned(base + left, left),
            oob |-> \/ Outside(array, base .. (base + left + right - 1))
                    \/ Outside(tmp, 0 .. (left - 1))]
           : tmp1 \in { memmove(tmp, 0, array, base, left) },
             arr1 \in { memmove(array, base, array, base + left, right) } })

\* array is the buffer holding the run, base the index of array[0] of the
\* call; tmp1 is swap after the first memcpy, arr1 the array after memmove;
\* wrote is a ghost: the indices of array that were assigned
rotate(array, base, tmp, left, right) ==
    Only({ [array |-> memmove(arr1, base + right, tmp1, 0, left), swap |-> tmp1,
            wrote |-> Assigned(base, right) \cup Assigned(base + right, left),
            oob |-> \/ Outside(array, base .. (base + left + right - 1))
                    \/ Outside(tmp, 0 .. (left - 1))]
           : tmp1 \in { memmove(tmp, 0, array, base, left) },
             arr1 \in { memmove(array, base, array, base + left, right) } })

----------------------------------------------------------------------------
(* partition_array, xsort.c:68-80 *)

\* (a fault: the halves round up, left = (elements + 1) / 2)
partition_array_rounds_up(elements) ==
    LET left  == (elements + 1) \div 2
        right == elements - left
    IN  [lh |-> left,  q1 |-> (left + 1) \div 2,  q2 |-> left - ((left + 1) \div 2),
         rh |-> right, q3 |-> (right + 1) \div 2, q4 |-> right - ((right + 1) \div 2)]

partition_array(elements) ==
    LET left  == elements \div 2
        right == elements - left
    IN  [lh |-> left,  q1 |-> left \div 2,  q2 |-> left - (left \div 2),
         rh |-> right, q3 |-> right \div 2, q4 |-> right - (right \div 2)]

ZeroSegment == [lh |-> 0, q1 |-> 0, q2 |-> 0, rh |-> 0, q3 |-> 0, q4 |-> 0]

----------------------------------------------------------------------------
(* parity_merge_ctx, xsort.c:137-159 *)

\* m = [dst, ptd, tpd, ptl, ptr, tpl, tpr, cmps, oob, wr]: the destination
\* buffer, the six cursors (relative to src / dst of the call), and wr, the
\* number of writes each destination slot has received.  sb and db are the
\* indices of src[0] and dst[0] of the call.

\* (a fault: the forward front takes the larger element)
HeadTakesLeftInverted(c) == c > 0
\* (a fault: the backward front takes the left element on ties too)
TailTakesLeftOnTie(c) == c >= 0

\* the forward front takes the left element when cmp(...) <= 0
HeadTakesLeft(c) == c <= 0
\* the backward front takes the left element when cmp(...) > 0
TailTakesLeft(c) == c > 0

Put(m, db, i, v) ==
    [m EXCEPT !.dst = Wr(@, db + i, v),
              !.wr = [j \in DOMAIN @ \cup {i} |-> IF j = i THEN (IF j \in DOMAIN @ THEN @[j] ELSE 0) + 1 ELSE @[j]],
              !.oob = @ \/ Outside(m.dst, {db + i})]

\* dst[i_ptd++] = cmp(&src[i_ptl], &src[i_ptr], arg) <= 0 ? src[i_ptl++] : src[i_ptr++]
\* (adv = 0 for the last statement, which leaves the cursors alone)
Forward(src, sb, db, m, adv) ==
    { LET m1 == [m EXCEPT !.cmps = @ + 1,
                          !.oob = @ \/ Outside(src, {sb + m.ptl, sb + m.ptr})]
      IN  IF HeadTakesLeft(c)
          THEN [Put(m1, db, m.ptd, Rd(src, sb + m.ptl)) EXCEPT !.ptd = @ + adv, !.ptl = @ + adv]
          ELSE [Put(m1, db, m.ptd, Rd(src, sb + m.ptr)) EXCEPT !.ptd = @ + adv, !.ptr = @ + adv]
      : c \in Cmp(Rd(src, sb + m.ptl), Rd(src, sb + m.ptr)) }

\* dst[i_tpd--] = cmp(&src[i_tpl], &src[i_tpr], arg) > 0 ? src[i_tpl--] : src[i_tpr--]
Backward(src, sb, db, m, adv) ==
    { LET m1 == [m EXCEPT !.cmps = @ + 1,
                          !.oob = @ \/ Outside(src, {sb + m.tpl, sb + m.tpr})]
      IN  IF TailTakesLeft(c)
          THEN [Put(m1, db, m.tpd, Rd(src, sb + m.tpl)) EXCEPT !.tpd = @ - adv, !.tpl = @ - adv]
          ELSE [Put(m1, db, m.tpd, Rd(src, sb + m.tpr)) EXCEPT !.tpd = @ - adv, !.tpr = @ - adv]
      : c \in Cmp(Rd(src, sb + m.tpl), Rd(src, sb + m.tpr)) }

\* (a fault: `while (left--)`)
RECURSIVE MergeLoopPostDecrement(_, _, _, _, _)
MergeLoopPostDecrement(src, sb, db, M, left) ==
    IF left = 0 THEN M
    ELSE MergeLoopPostDecrement(src, sb, db,
                   UNION { UNION { Backward(src, sb, db, f, 1) : f \in Forward(src, sb, db, m, 1) } : m \in M },
                   left - 1)

\* while (--left) { forward; backward }  -- left is the value before `--left`
RECURSIVE MergeLoop(_, _, _, _, _)
MergeLoop(src, sb, db, M, left) ==
    IF left - 1 = 0 THEN M
    ELSE MergeLoop(src, sb, db,
                   UNION { UNION { Backward(src, sb, db, f, 1) : f \in Forward(src, sb, db, m, 1) } : m \in M },
                   left - 1)

\* the set of results of merging src[sb .. sb+left-1] and
\* src[sb+left .. sb+left+right-1] into dst[db ..], for left >= 1; call is a
\* ghost: the source runs the call was given
parity_merge_ctx(src, sb, dst, db, left, right) ==
    LET m0 == [dst |-> dst, ptd |-> 0, tpd |-> left + right - 1,
               ptl |-> 0, ptr |-> left, tpl |-> 0, tpr |-> 0,
               cmps |-> 0, oob |-> FALSE, wr |-> << >>]
        M1 == IF left < right THEN Forward(src, sb, db, m0, 1) ELSE {m0}
        M2 == { [m EXCEPT !.tpl = left - 1, !.tpr = left + right - 1] : m \in M1 }
        M3 == MergeLoop(src, sb, db, M2, left)
        M4 == UNION { Backward(src, sb, db, m, 0) : m \in M3 }
        M5 == UNION { Forward(src, sb, db, m, 0) : m \in M4 }
    IN  { [dst |-> m.dst, cmps |-> m.cmps, oob |-> m.oob, wr |-> m.wr,
           call |-> [src |-> src, sb |-> sb, left |-> left, right |-> right]] : m \in M5 }

----------------------------------------------------------------------------
(* The merge decision of ret_addr_4, xsort.c:262-280 *)

\* A test is the record [a, b, gt]: the indices of the two elements compared
\* and whether the `if` asks for cmp > 0 (gt) or for cmp <= 0.  Nested ifs
\* stop at the first test that fails.  Yields [pass, cmps, oob].
\* (a fault: the already-ordered tests ask for cmp < 0)
TestHoldsStrict(t, c) == IF t.gt THEN c > 0 ELSE c < 0

\* the condition of test t on comparator result c
TestHolds(t, c) == IF t.gt THEN c > 0 ELSE c <= 0

RECURSIVE NestedIfs(_, _)
NestedIfs(buf, tests) ==
    IF tests = << >> THEN {[pass |-> TRUE, cmps |-> 0, oob |-> FALSE]}
    ELSE LET t == Head(tests)
             bad == Outside(buf, {t.a, t.b})
         IN  UNION { IF TestHolds(t, c)
                     THEN { [pass |-> r.pass, cmps |-> r.cmps + 1, oob |-> r.oob \/ bad]
                            : r \in NestedIfs(buf, Tail(tests)) }
                     ELSE { [pass |-> FALSE, cmps |-> 1, oob |-> bad] }
                     : c \in Cmp(Rd(buf, t.a), Rd(buf, t.b)) }

\* (a fault: the first test looks one element too far)
OrderedTestsOffByOne(base, seg) ==
    << [a |-> base + seg.q1,              b |-> base + seg.q1 + 1,      gt |-> FALSE],
       [a |-> base + seg.lh - 1,          b |-> base + seg.lh,          gt |-> FALSE],
       [a |-> base + seg.lh + seg.q3 - 1, b |-> base + seg.lh + seg.q3, gt |-> FALSE] >>

\* xsort.c:263-269
OrderedTests(base, seg) ==
    << [a |-> base + seg.q1 - 1,          b |-> base + seg.q1,          gt |-> FALSE],
       [a |-> base + seg.lh - 1,          b |-> base + seg.lh,          gt |-> FALSE],
       [a |-> base + seg.lh + seg.q3 - 1, b |-> base + seg.lh + seg.q3, gt |-> FALSE] >>

\* xsort.c:271-280
ReversedTests(base, seg, elements) ==
    << [a |-> base,          b |-> base + seg.lh - 1,          gt |-> TRUE],
       [a |-> base + seg.q1, b |-> base + seg.lh + seg.q3 - 1, gt |-> TRUE],
       [a |-> base + seg.lh, b |-> base + elements - 1,        gt |-> TRUE] >>

\* xsort.c:274-276
ThreeRotations(buf, base, tmp, seg) ==
    Only(UNION { UNION { { [array |-> r3.array, swap |-> r3.swap,
                            wrote |-> r1.wrote \cup r2.wrote \cup r3.wrote,
                            oob |-> r1.oob \/ r2.oob \/ r3.oob]
                           : r3 \in { rotate(r2.array, base, r2.swap, seg.q3, seg.q4) } }
                         : r2 \in { rotate(r1.array, base, r1.swap, seg.q2, seg.rh) } }
                 : r1 \in { rotate(buf, base, tmp, seg.q1, seg.q2 + seg.rh) } })

\* (a fault: the third merge writes to the start of the caller's buffer)
ThreeMergesBackToStart(buf, base, tmp, seg) ==
    UNION { UNION { { [data |-> m3.dst, swap |-> m2.dst,
                       cmps |-> m1.cmps + m2.cmps + m3.cmps,
                       oob |-> m1.oob \/ m2.oob \/ m3.oob,
                       wrote |-> { i : i \in DOMAIN m3.wr },
                       calls |-> << m1.call, m2.call, m3.call >>]
                      : m3 \in parity_merge_ctx(m2.dst, 0, buf, 0, seg.lh, seg.rh) }
                    : m2 \in parity_merge_ctx(buf, base + seg.lh, m1.dst, seg.lh, seg.q3, seg.q4) }
            : m1 \in parity_merge_ctx(buf, base, tmp, 0, seg.q1, seg.q2) }

\* xsort.c:282-284; yields [data, swap, cmps, oob, wrote, calls]; wrote and
\* calls are ghosts: the indices of the caller's buffer that were assigned,
\* and the source runs of the three calls
ThreeMerges(buf, base, tmp, seg) ==
    UNION { UNION { { [data |-> m3.dst, swap |-> m2.dst,
                       cmps |-> m1.cmps + m2.cmps + m3.cmps,
                       oob |-> m1.oob \/ m2.oob \/ m3.oob,
                       wrote |-> { base + i : i \in DOMAIN m3.wr },
                       calls |-> << m1.call, m2.call, m3.call >>]
                      : m3 \in parity_merge_ctx(m2.dst, 0, buf, base, seg.lh, seg.rh) }
                    : m2 \in parity_merge_ctx(buf, base + seg.lh, m1.dst, seg.lh, seg.q3, seg.q4) }
            : m1 \in parity_merge_ctx(buf, base, tmp, 0, seg.q1, seg.q2) }

----------------------------------------------------------------------------
(* xsort, xsort.c:161-288 *)

\* a frame of stk (xsort.c:163-168, 177); data is the index of the run's first
\* element in the caller's buffer.  held is a ghost: the caller's buffer as
\* it was when the frame was popped at ret_addr_0 (NotYet before that).
NotYet == << >>

Frame(d, n, seg, ret, held) ==
    [data |-> d, elements |-> n, segment |-> seg, ret_addr |-> ret, held |-> held]

stack_depth == Len(stk) - 1
stk_top == stk[Len(stk)]
Below == SubSeq(stk, 1, Len(stk) - 1)

\* (a fault: the check leaves no headroom for the two pushes)
GrowWithoutHeadroom(depth, capacity) == IF depth >= capacity THEN capacity * 2 ELSE capacity

\* xsort.c:187-191
Grow(depth, capacity) == IF depth + 2 >= capacity THEN capacity * 2 ELSE capacity

\* the part every iteration shares: the loop test, the growth check, the pop
Iteration(ret) ==
    /\ pc = "loop"
    /\ stack_depth >= 0
    /\ stk_top.ret_addr = ret
    /\ frame_capacity' = Grow(stack_depth, frame_capacity)
    /\ iters' = iters + 1
    /\ UNCHANGED <<cmp, arg, pc, input, unit>>

\* what an iteration did: the frame it popped (data, elements, segment), the
\* caller's buffer before it, its comparator calls (in all, and of the merge
\* decision), the frames it pushed, the indices of the caller's buffer it
\* assigned and the source runs of its calls of parity_merge_ctx
Wrote(op, cmps, decision, pushes, wrote, calls) ==
    [op |-> op, data |-> stk_top.data, elements |-> stk_top.elements,
     segment |-> stk_top.segment, before |-> data,
     cmps |-> cmps, decision |-> decision, pushes |-> pushes,
     wrote |-> wrote, calls |-> calls]

Did(op, cmps, decision, pushes) == Wrote(op, cmps, decision, pushes, {}, << >>)

\* (a fault: the child frame is pushed first, below its parent)
ScheduleChildFirst(seg, ret, child, count) ==
    Below \o << Frame(child, count, seg, 0, NotYet),
                Frame(stk_top.data, stk_top.elements, seg, ret,
                      IF stk_top.ret_addr = 0 THEN data ELSE stk_top.held) >>

\* the parent frame pushed back with its next resumption point, and the
\* child frame on top of it
Schedule(seg, ret, child, count) ==
    Below \o << Frame(stk_top.data, stk_top.elements, seg, ret,
                      IF stk_top.ret_addr = 0 THEN data ELSE stk_top.held),
                Frame(child, count, seg, 0, NotYet) >>

\* ret_addr_0 with elements <= 7 (xsort.c:199-203)
ret_addr_0_base ==
    /\ Iteration(0)
    /\ stk_top.elements <= BaseMax
    /\ \E r \in oddeven_sort_ctx(data, stk_top.data, stk_top.elements) :
          /\ data' = r.seg
          /\ oob' = (oob \/ r.oob)
          /\ last' = Wrote("base", r.cmps, 0, 0, r.wrote, << >>)
    /\ stk' = Below
    /\ UNCHANGED swap

\* ret_addr_0 with elements > 7 (xsort.c:205-219)
ret_addr_0_split ==
    /\ Iteration(0)
    /\ ~(stk_top.elements <= BaseMax)
    /\ LET seg == partition_array(stk_top.elements)
       IN  stk' = Schedule(seg, 1, stk_top.data, seg.q1)
    /\ last' = Did("split", 0, 0, 2)
    /\ UNCHANGED <<data, swap, oob>>

\* ret_addr_1 (xsort.c:220-233)
ret_addr_1 ==
    /\ Iteration(1)
    /\ stk' = Schedule(stk_top.segment, 2, stk_top.data + stk_top.segment.q1, stk_top.segment.q2)
    /\ last' = Did("after_q1", 0, 0, 2)
    /\ UNCHANGED <<data, swap, oob>>

\* ret_addr_2 (xsort.c:234-247)
ret_addr_2 ==
    /\ Iteration(2)
    /\ stk' = Schedule(stk_top.segment, 3, stk_top.data + stk_top.segment.lh, stk_top.segment.q3)
    /\ last' = Did("after_q2", 0, 0, 2)
    /\ UNCHANGED <<data, swap, oob>>

\* ret_addr_3 (xsort.c:248-261)
ret_addr_3 ==
    /\ Iteration(3)
    /\ stk' = Schedule(stk_top.segment, 4, stk_top.data + stk_top.segment.lh + stk_top.segment.q3, stk_top.segment.q4)
    /\ last' = Did("after_q3", 0, 0, 2)
    /\ UNCHANGED <<data, swap, oob>>

\* ret_addr_4, the already-ordered check passes (xsort.c:262-269)
ret_addr_4_ordered ==
    /\ Iteration(4)
    /\ \E o \in NestedIfs(data, OrderedTests(stk_top.data, stk_top.segment)) :
          /\ o.pass
          /\ oob' = (oob \/ o.oob)
          /\ last' = Did("ordered", o.cmps, o.cmps, 0)
    /\ stk' = Below
    /\ UNCHANGED <<data, swap>>

\* ret_addr_4, the fully-reversed check passes (xsort.c:271-280)
ret_addr_4_rotate ==
    /\ Iteration(4)
    /\ \E o \in NestedIfs(data, OrderedTests(stk_top.data, stk_top.segment)) :
       \E v \in NestedIfs(data, ReversedTests(stk_top.data, stk_top.segment, stk_top.elements)) :
          /\ ~o.pass
          /\ v.pass
          /\ \E r \in { ThreeRotations(data, stk_top.data, swap, stk_top.segment) } :
                /\ data' = r.array
                /\ swap' = r.swap
                /\ oob' = (oob \/ o.oob \/ v.oob \/ r.oob)
                /\ last' = Wrote("rotate", o.cmps + v.cmps, o.cmps + v.cmps, 0, r.wrote, << >>)
    /\ stk' = Below

\* ret_addr_4, the general case (xsort.c:282-284)
ret_addr_4_merge ==
    /\ Iteration(4)
    /\ \E o \in NestedIfs(data, OrderedTests(stk_top.data, stk_top.segment)) :
       \E v \in NestedIfs(data, ReversedTests(stk_top.data, stk_top.segment, stk_top.elements)) :
          /\ ~o.pass
          /\ ~v.pass
          /\ \E r \in ThreeMerges(data, stk_top.data, swap, stk_top.segment) :
                /\ data' = r.data
                /\ swap' = r.swap
                /\ oob' = (oob \/ o.oob \/ v.oob \/ r.oob)
                /\ last' = Wrote("merge", o.cmps + v.cmps + r.cmps, o.cmps + v.cmps, 0,
                                 r.wrote, r.calls)
    /\ stk' = Below

\* (a fault: the loop test is `stack_depth >= -1`, which an empty stack passes)
ReturnLoopTestOffByOne ==
    /\ pc = "loop"
    /\ ~(stack_depth >= -1)
    /\ pc' = "done"
    /\ UNCHANGED <<data, swap, cmp, arg, stk, frame_capacity, input, oob, iters, last, unit>>

\* the loop test fails: free both buffers and return (xsort.c:186, 286-288)
Return ==
    /\ pc = "loop"
    /\ ~(stack_depth >= 0)
    /\ pc' = "done"
    /\ UNCHANGED <<data, swap, cmp, arg, stk, frame_capacity, input, oob, iters, last, unit>>

----------------------------------------------------------------------------
(* The calls of xsort the model makes *)

\* the buffer of n distinct elements, in the caller's order
Handles(n) == [i \in 0 .. (n - 1) |-> i + 1]

\* patterned key tables for n elements: non-decreasing, non-increasing
\* (strictly decreasing for p = 1) and scrambled
Ascending(n, p)  == [h \in 1 .. n |-> (h - 1) \div p]
Descending(n, p) == [h \in 1 .. n |-> (n - h) \div p]
Scrambled(n, p)  == [h \in 1 .. n |-> (p * h * h + h) % (2 * p + 3)]

\* the broken comparators that have one answer per pair of keys
Tables == Broken \ {"any"}

\* the state right after xsort.c:161-184
Start(n, c, keys) ==
    /\ data = Handles(n)
    /\ input = Handles(n)
    /\ swap = [i \in 0 .. (n - 1) |-> Garbage]
    /\ cmp = c
    /\ arg = keys
    /\ stk = << Frame(0, n, ZeroSegment, 0, NotYet) >>
    /\ frame_capacity = InitCapacity
    /\ pc = "loop"
    /\ oob = FALSE
    /\ iters = 0
    /\ last = [op |-> "none", data |-> 0, elements |-> n, cmps |-> 0, decision |-> 0, pushes |-> 0]

Idle == [fn |-> "none"]

\* xsort is called with: every key table over 0..MaxKey for up to MaxLen
\* elements, under the key order; patterned key tables for up to MaxBigLen
\* elements, under every comparator that has one answer per pair; and up to
\* MaxAnyLen elements under a comparator that answers arbitrarily.
\* Allocation succeeds (xmalloc aborts the process otherwise).
Init ==
    /\ unit = Idle
    /\ \/ \E n \in 0 .. MaxLen : \E keys \in [1 .. n -> 0 .. MaxKey] :
          Start(n, "key_order", keys)
       \/ \E n \in 0 .. MaxBigLen : \E p \in 1 .. MaxStep :
          \E keys \in {Ascending(n, p), Descending(n, p), Scrambled(n, p)} :
          \E c \in Consistent \cup Tables : Start(n, c, keys)
       \/ \E n \in 0 .. MaxAnyLen : Start(n, "any", [h \in 1 .. n |-> 0])

Next ==
    \/ ret_addr_0_base
    \/ ret_addr_0_split
    \/ ret_addr_1
    \/ ret_addr_2
    \/ ret_addr_3
    \/ ret_addr_4_ordered
    \/ ret_addr_4_rotate
    \/ ret_addr_4_merge
    \/ Return

Spec == Init /\ [][Next]_vars

----------------------------------------------------------------------------
(* Vocabulary of the properties *)

\* the number of elements xsort was called with
N == Cardinality(DOMAIN input)

Returned == pc = "done"

\* cmp(a, b, arg) <= 0, for a comparator that has one answer
Le(a, b) == \A c \in Cmp(a, b) : c <= 0
\* cmp(a, b, arg) > 0
Gt(a, b) == \A c \in Cmp(a, b) : c > 0
\* cmp(a, b, arg) = 0
Eq(a, b) == \A c \in Cmp(a, b) : c = 0

\* buf[from .. from+count-1] is non-decreasing under the comparator
SortedRun(buf, from, count) ==
    \A i \in from .. (from + count - 2) : Le(buf[i], buf[i + 1])

Sorted(buf) == SortedRun(buf, 0, N)

\* every adjacent pair of buf is strictly out of order
StrictlyDescending(buf) ==
    \A i \in 0 .. (N - 2) : Gt(buf[i], buf[i + 1])

\* buf holds each element of the input exactly once
IsPermutation(buf) ==
    /\ DOMAIN buf = DOMAIN input
    /\ \A h \in 1 .. N : Cardinality({i \in DOMAIN buf : buf[i] = h}) = 1

\* elements that compare equal are in their input order (a handle is the
\* element's position in the input, plus one)
IsStable(buf) ==
    \A i \in DOMAIN buf : \A j \in DOMAIN buf :
        (i < j /\ Eq(buf[i], buf[j])) => buf[i] < buf[j]

\* the whole input went through a merge decision, which was the last iteration
TopLevelDecision ==
    /\ Returned
    /\ last.elements = N
    /\ last.op \in {"ordered", "rotate", "merge"}

----------------------------------------------------------------------------
(* Properties of xsort *)

\* C1 (ordering): when xsort returns from a call with a consistent
\* comparator, every adjacent pair of the buffer satisfies cmp <= 0.
Ordering == (Returned /\ cmp \in Consistent) => Sorted(data)

\* an unsorted input of at least 8 elements has been merged and is sorted
OrderingWitness ==
    /\ Returned /\ cmp = "key_order" /\ N >= 8
    /\ ~Sorted(input) /\ last.op = "merge" /\ Sorted(data)

\* C2 (permutation): when xsort returns from a call with a consistent
\* comparator, the buffer holds exactly the elements of the input.
Permutation == (Returned /\ cmp \in Consistent) => IsPermutation(data)

\* the buffer went through the auxiliary buffer and back and changed
PermutationWitness ==
    /\ Returned /\ cmp \in Consistent /\ last.op = "merge"
    /\ data # input /\ IsPermutation(data)

\* C3 (stability): when xsort returns from a call with a consistent
\* comparator, elements that compare equal are in their input order.
Stability == (Returned /\ cmp \in Consistent) => IsStable(data)

\* equal elements were present, and the buffer was reordered by a merge
StabilityWitness ==
    /\ Returned /\ cmp = "key_order" /\ last.op = "merge" /\ data # input
    /\ \E h \in 1 .. N : \E k \in 1 .. N : h # k /\ arg[h] = arg[k]
    /\ IsStable(data)

\* C4 (permutation under any comparator): when xsort returns, whatever the
\* comparator, the buffer holds exactly the elements of the input.
PermutationAnyComparator == Returned => IsPermutation(data)

\* C5 (no out-of-bounds access): whatever the comparator, no element is read
\* or written outside the input buffer and the auxiliary buffer.
NoOutOfBounds == ~oob

\* a call with a broken comparator went through the base case and the merger
NoOutOfBoundsWitness ==
    /\ Returned /\ cmp \in Broken /\ N >= 8 /\ last.op = "merge" /\ ~oob

\* C6 (already-ordered input): on an input that is non-decreasing under a
\* consistent comparator the buffer never changes, and every merge decision
\* ends in the already-ordered check: no rotation, no merge.
SortedInputUntouched ==
    (cmp \in Consistent /\ Sorted(input)) =>
        /\ data = input
        /\ last.op \notin {"rotate", "merge"}

\* a sorted input with ties, long enough for a nested merge decision
SortedInputWitness ==
    /\ Returned /\ cmp = "key_order" /\ Sorted(input) /\ N >= 32
    /\ \E i \in 0 .. (N - 2) : Eq(input[i], input[i + 1])
    /\ last.op = "ordered" /\ data = input

StrictlyDescendingBy4 ==
    /\ cmp \in Consistent
    /\ StrictlyDescending(input)
    /\ N % 4 = 0
    /\ N > BaseMax

\* C7 as stated (reverse fast path): on a strictly descending input whose
\* length is a multiple of 4, the top-level merge decision rotates and calls
\* the comparator zero times.
ReversePathNoCalls ==
    (Returned /\ StrictlyDescendingBy4) =>
        (TopLevelDecision /\ last.op = "rotate" /\ last.decision = 0)

\* C7 as amended: ... the top-level merge decision rotates, after exactly four
\* comparator calls (the first already-ordered test, which fails, and the
\* three fully-reversed tests); the rotations call the comparator zero times.
ReversePathFourCalls ==
    (Returned /\ StrictlyDescendingBy4) =>
        /\ TopLevelDecision
        /\ last.op = "rotate"
        /\ last.decision = 4
        /\ last.cmps = last.decision

\* a strictly descending input of 32 elements, rotated at both levels
ReversePathWitness ==
    /\ Returned /\ StrictlyDescendingBy4 /\ N >= 32
    /\ last.op = "rotate" /\ last.elements = N /\ Sorted(data)

\* C8 (empty and singleton input): for 0 or 1 elements, whatever the
\* comparator, the buffer never changes, the comparator is never called, no
\* frame is pushed, and xsort returns after a single iteration.
TrivialInputNoOp ==
    (N <= 1) =>
        /\ data = input
        /\ last.cmps = 0
        /\ last.pushes = 0
        /\ Len(stk) <= 1
        /\ iters <= 1
        /\ Returned => (iters = 1 /\ last.op = "base")

\* a call with one element has returned
TrivialInputWitness ==
    Returned /\ N = 1 /\ iters = 1 /\ data = input /\ last.cmps = 0

----------------------------------------------------------------------------
(* parity_merge_ctx on its own: every call with runs of 1..MaxRun elements *)

\* the state before the call parity_merge_ctx(data, swap, left, right, c, keys)
MergeCall(left, right, c, keys) ==
    /\ unit = [fn |-> "parity_merge_ctx", left |-> left, right |-> right,
               returned |-> FALSE, cmps |-> 0, wr |-> << >>]
    /\ data = Handles(left + right)
    /\ input = Handles(left + right)
    /\ swap = [i \in 0 .. (left + right - 1) |-> Garbage]
    /\ cmp = c
    /\ arg = keys
    /\ stk = << >>
    /\ frame_capacity = InitCapacity
    /\ pc = "unit"
    /\ oob = FALSE
    /\ iters = 0
    /\ last = [op |-> "none", data |-> 0, elements |-> 0, cmps |-> 0, decision |-> 0, pushes |-> 0]

InitMerge ==
    \E left \in 1 .. MaxRun : \E right \in 1 .. MaxRun :
       \/ \E keys \in [1 .. (left + right) -> 0 .. MaxKey] : MergeCall(left, right, "key_order", keys)
       \/ MergeCall(left, right, "any", [h \in 1 .. (left + right) |-> 0])

CallParityMerge ==
    /\ unit.fn = "parity_merge_ctx"
    /\ ~unit.returned
    /\ \E m \in parity_merge_ctx(data, 0, swap, 0, unit.left, unit.right) :
          /\ swap' = m.dst
          /\ oob' = m.oob
          /\ unit' = [unit EXCEPT !.returned = TRUE, !.cmps = m.cmps, !.wr = m.wr]
    /\ UNCHANGED <<data, cmp, arg, stk, frame_capacity, pc, input, iters, last>>

NextMerge == CallParityMerge

SpecMerge == InitMerge /\ [][NextMerge]_vars

\* both source runs are sorted under the comparator
RunsSorted ==
    /\ SortedRun(data, 0, unit.left)
    /\ SortedRun(data, unit.left, unit.right)

\* the right run is as long as the left run, or one longer
Balanced == unit.left <= unit.right /\ unit.right <= unit.left + 1

\* every destination slot was written exactly once
EachSlotOnce ==
    /\ DOMAIN unit.wr = 0 .. (unit.left + unit.right - 1)
    /\ \A i \in DOMAIN unit.wr : unit.wr[i] = 1

\* the destination is the stable merge of the two runs
StableMerge == IsPermutation(swap) /\ Sorted(swap) /\ IsStable(swap)

\* C9 as stated (parity merger): for all L >= 1 and R >= 1 and sorted runs,
\* every destination slot is written exactly once and the destination is the
\* stable merge of the runs.
MergeCorrectAllLengths ==
    (unit.returned /\ cmp \in Consistent /\ RunsSorted) =>
        (EachSlotOnce /\ StableMerge)

\* C9 as amended: for all L >= 1 and R with L <= R <= L + 1 and sorted runs,
\* every destination slot is written exactly once and the destination is the
\* stable merge of the runs.
MergeCorrectBalanced ==
    (unit.returned /\ cmp \in Consistent /\ RunsSorted /\ Balanced) =>
        (EachSlotOnce /\ StableMerge /\ ~oob)

\* two sorted runs with a tie across them, interleaved by the merge
MergeCorrectWitness ==
    /\ unit.returned /\ cmp = "key_order" /\ RunsSorted /\ Balanced
    /\ unit.left >= 2 /\ unit.right = unit.left + 1
    /\ swap # data
    /\ \E h \in 1 .. unit.left : \E k \in (unit.left + 1) .. N : arg[h] = arg[k]
    /\ EachSlotOnce /\ StableMerge

\* C10 as stated (parity merger cost): every call on runs of lengths L and R
\* calls the comparator exactly L + R - 1 times.
MergeCostOneLess ==
    unit.returned => unit.cmps = unit.left + unit.right - 1

\* C10 as amended: every call on runs of lengths L >= 1 and R calls the
\* comparator exactly 2L times, plus one if L < R, whatever the contents of
\* the runs and whatever the comparator answers; that is L + R times when
\* L <= R <= L + 1.
MergeCostExact ==
    unit.returned =>
        /\ unit.cmps = 2 * unit.left + (IF unit.left < unit.right THEN 1 ELSE 0)
        /\ Balanced => unit.cmps = unit.left + unit.right

\* a call on unsorted runs of unequal lengths has returned
MergeCostWitness ==
    /\ unit.returned /\ ~RunsSorted /\ unit.left >= 2 /\ unit.right = unit.left + 1
    /\ unit.cmps = unit.left + unit.right

----------------------------------------------------------------------------
(* oddeven_sort_ctx on its own: every call with a run of 0..BaseMax elements *)

\* the state before the call oddeven_sort_ctx(data, elements, c, keys)
OddevenCall(elements, c, keys) ==
    /\ unit = [fn |-> "oddeven_sort_ctx", elements |-> elements,
               returned |-> FALSE, cmps |-> 0, sweeps |-> 0, xch |-> 0]
    /\ data = Handles(elements)
    /\ input = Handles(elements)
    /\ swap = << >>
    /\ cmp = c
    /\ arg = keys
    /\ stk = << >>
    /\ frame_capacity = InitCapacity
    /\ pc = "unit"
    /\ oob = FALSE
    /\ iters = 0
    /\ last = [op |-> "none", data |-> 0, elements |-> 0, cmps |-> 0, decision |-> 0, pushes |-> 0]

\* every key table under every consistent comparator, and the comparator
\* that answers arbitrarily for up to MaxSweepAnyLen elements
InitOddeven ==
    \E elements \in 0 .. BaseMax :
       \/ \E keys \in [1 .. elements -> 0 .. MaxKey] : \E c \in Consistent :
             OddevenCall(elements, c, keys)
       \/ /\ elements <= MaxSweepAnyLen
          /\ OddevenCall(elements, "any", [h \in 1 .. elements |-> 0])

CallOddevenSort ==
    /\ unit.fn = "oddeven_sort_ctx"
    /\ ~unit.returned
    /\ \E r \in oddeven_sort_ctx(data, 0, unit.elements) :
          /\ data' = r.seg
          /\ oob' = r.oob
          /\ unit' = [unit EXCEPT !.returned = TRUE, !.cmps = r.cmps,
                                  !.sweeps = r.sweeps, !.xch = r.xch]
    /\ UNCHANGED <<swap, cmp, arg, stk, frame_capacity, pc, input, iters, last>>

NextOddeven == CallOddevenSort

SpecOddeven == InitOddeven /\ [][NextOddeven]_vars

\* the run of the call is sorted and holds the elements it held before
RunSorted == cmp \in Consistent => (Sorted(data) /\ IsPermutation(data))

\* C11 as stated (length-3 base case cost): sorting a run of exactly 3
\* elements calls the comparator once in the best case and at most twice in
\* the worst case, and leaves the run sorted.
ThreeRunOneOrTwoCalls ==
    (unit.returned /\ unit.elements = 3) =>
        (unit.cmps \in 1 .. 2 /\ RunSorted)

\* C11 as amended: sorting a run of exactly 3 elements calls the comparator
\* twice in the best case (the second pair is not exchanged) and three times
\* in the worst case, and leaves the run sorted.
ThreeRunTwoOrThreeCalls ==
    (unit.returned /\ unit.elements = 3) =>
        (unit.cmps \in 2 .. 3 /\ RunSorted)

\* a run of 3 whose second pair was out of order: three calls, sorted
ThreeRunWitness ==
    /\ unit.returned /\ unit.elements = 3 /\ cmp = "key_order"
    /\ unit.cmps = 3 /\ data # input /\ Sorted(data)

\* C12 (length 4-7 base case): for a run of 4..7 elements and a consistent
\* comparator, oddeven_sort_ctx makes at most as many sweeps as the run has
\* elements, stops before that only after a sweep without exchange, and
\* returns with the run sorted.
SweepsBoundedAndSorted ==
    (unit.returned /\ unit.elements \in 4 .. BaseMax /\ cmp \in Consistent) =>
        /\ unit.sweeps \in 1 .. unit.elements
        /\ unit.sweeps < unit.elements => unit.xch = 0
        /\ RunSorted

\* a run of 7 that needed every sweep
SweepsWitness ==
    /\ unit.returned /\ unit.elements = BaseMax /\ cmp = "key_order"
    /\ unit.sweeps = unit.elements /\ data # input /\ Sorted(data)

----------------------------------------------------------------------------
(* Properties of the engine's scheduling *)

\* the operations that finish a frame
Finished == {"base", "ordered", "rotate", "merge"}

\* the engine is at the top of an iteration that will pop a frame
AtPop == pc = "loop" /\ stack_depth >= 0

\* first index and length of quarter k (1..4) of frame f (xsort.c:212, 226, 240, 254)
QuarterBase(f, k) ==
    CASE k = 1 -> f.data
      [] k = 2 -> f.data + f.segment.q1
      [] k = 3 -> f.data + f.segment.lh
      [] OTHER -> f.data + f.segment.lh + f.segment.q3

QuarterLen(f, k) ==
    CASE k = 1 -> f.segment.q1
      [] k = 2 -> f.segment.q2
      [] k = 3 -> f.segment.q3
      [] OTHER -> f.segment.q4

\* a[from .. from+count-1] holds every element as often as b[from .. from+count-1]
SameElements(a, b, from, count) ==
    LET I == from .. (from + count - 1)
    IN  \A h \in {a[i] : i \in I} \cup {b[i] : i \in I} :
            Cardinality({i \in I : a[i] = h}) = Cardinality({i \in I : b[i] = h})

\* a[from .. from+count-1] = b[from .. from+count-1]
SameRun(a, b, from, count) ==
    \A i \in from .. (from + count - 1) : a[i] = b[i]

\* C13 (depth-first scheduling): when a frame is about to be resumed at
\* ret_addr_k (k = 1..4), the iteration before finished the frame of its
\* quarter k, nothing lives above it, the quarters after k still hold what
\* they held at the frame's entry, and (for a consistent comparator) each of
\* the quarters 1..k is sorted and a permutation of what it held at the
\* frame's entry; at ret_addr_4 that is all four quarters.
DepthFirst ==
    (AtPop /\ stk_top.ret_addr \in 1 .. 4) =>
        LET f == stk_top
            k == f.ret_addr
        IN  /\ last.op \in Finished
            /\ last.data = QuarterBase(f, k)
            /\ last.elements = QuarterLen(f, k)
            /\ \A j \in (k + 1) .. 4 :
                  SameRun(data, f.held, QuarterBase(f, j), QuarterLen(f, j))
            /\ cmp \in Consistent =>
                  \A j \in 1 .. k :
                     /\ SortedRun(data, QuarterBase(f, j), QuarterLen(f, j))
                     /\ SameElements(data, f.held, QuarterBase(f, j), QuarterLen(f, j))

\* a frame is about to be resumed at ret_addr_4; its last quarter was itself
\* split and merged, and its quarters are sorted and were reordered
DepthFirstWitness ==
    /\ AtPop /\ stk_top.ret_addr = 4 /\ cmp = "key_order"
    /\ last.op = "merge" /\ last.elements = stk_top.segment.q4
    /\ \A j \in 1 .. 4 :
          /\ SortedRun(data, QuarterBase(stk_top, j), QuarterLen(stk_top, j))
          /\ ~SameRun(data, stk_top.held, QuarterBase(stk_top, j), QuarterLen(stk_top, j))

----------------------------------------------------------------------------
(* Properties of the rotation path *)

\* the last iteration popped a frame at ret_addr_4 and rotated its run
Rotated == last.op = "rotate"

\* C14 (rotation path result): after an iteration whose fully-reversed check
\* passed, the run is the concatenation q4, q3, q2, q1 of what its quarters
\* held before the iteration, each in its own order; for a consistent
\* comparator the run is sorted; and every comparator call of the iteration
\* belongs to the merge decision, none to the rotations.
RotationResult ==
    Rotated =>
        LET b   == last.data
            seg == last.segment
            old == last.before
        IN  /\ \A i \in 0 .. (seg.q4 - 1) : data[b + i] = old[b + seg.lh + seg.q3 + i]
            /\ \A i \in 0 .. (seg.q3 - 1) : data[b + seg.q4 + i] = old[b + seg.lh + i]
            /\ \A i \in 0 .. (seg.q2 - 1) : data[b + seg.rh + i] = old[b + seg.q1 + i]
            /\ \A i \in 0 .. (seg.q1 - 1) : data[b + seg.rh + seg.q2 + i] = old[b + i]
            /\ cmp \in Consistent => SortedRun(data, b, last.elements)
            /\ last.cmps = last.decision

\* a run with quarters of different lengths, each sorted, was rotated
RotationWitness ==
    /\ Rotated /\ cmp = "key_order"
    /\ last.segment.q1 < last.segment.q4
    /\ \A j \in 1 .. 4 : SortedRun(last.before, QuarterBase(last, j), QuarterLen(last, j))
    /\ data # last.before
    /\ SortedRun(data, last.data, last.elements)

----------------------------------------------------------------------------
(* partition_array on its own: every run length 0..MaxElements *)

InitPartition ==
    /\ \E elements \in 0 .. MaxElements :
          unit = [fn |-> "partition_array", elements |-> elements,
                  returned |-> FALSE, segment |-> ZeroSegment]
    /\ data = << >>
    /\ input = << >>
    /\ swap = << >>
    /\ cmp = "key_order"
    /\ arg = << >>
    /\ stk = << >>
    /\ frame_capacity = InitCapacity
    /\ pc = "unit"
    /\ oob = FALSE
    /\ iters = 0
    /\ last = [op |-> "none", data |-> 0, elements |-> 0, cmps |-> 0, decision |-> 0, pushes |-> 0]

CallPartitionArray ==
    /\ unit.fn = "partition_array"
    /\ ~unit.returned
    /\ unit' = [unit EXCEPT !.returned = TRUE, !.segment = partition_array(unit.elements)]
    /\ UNCHANGED <<data, swap, cmp, arg, stk, frame_capacity, pc, input, oob, iters, last>>

NextPartition == CallPartitionArray

SpecPartition == InitPartition /\ [][NextPartition]_vars

\* the sizes add up, and the two parts of every split differ by at most one
SizesAddUp ==
    LET seg == unit.segment
    IN  /\ seg.lh = seg.q1 + seg.q2
        /\ seg.rh = seg.q3 + seg.q4
        /\ seg.lh + seg.rh = unit.elements
        /\ \A pair \in {<<seg.lh, seg.rh>>, <<seg.q1, seg.q2>>, <<seg.q3, seg.q4>>} :
              pair[1] - pair[2] \in -1 .. 1

\* C15 as stated (splitting rule): lh = q1+q2, rh = q3+q4, lh+rh = n, each
\* pair of sizes differs by at most one, and the extra element of an odd
\* length goes to the first half (lh >= rh) and to the first quarter of each
\* half (q1 >= q2, q3 >= q4).
ExtraElementFirst ==
    unit.returned =>
        /\ SizesAddUp
        /\ unit.segment.lh >= unit.segment.rh
        /\ unit.segment.q1 >= unit.segment.q2
        /\ unit.segment.q3 >= unit.segment.q4

\* C15 as amended: ... and the extra element of an odd length goes to the
\* second half (lh <= rh) and to the second quarter of each half (q1 <= q2,
\* q3 <= q4).
ExtraElementSecond ==
    unit.returned =>
        /\ SizesAddUp
        /\ unit.segment.lh <= unit.segment.rh
        /\ unit.segment.q1 <= unit.segment.q2
        /\ unit.segment.q3 <= unit.segment.q4

\* an odd length with an odd left half: the second half and the second
\* quarter of the left half are one longer
ExtraElementWitness ==
    /\ unit.returned /\ unit.elements > BaseMax /\ SizesAddUp
    /\ unit.segment.rh = unit.segment.lh + 1
    /\ unit.segment.q2 = unit.segment.q1 + 1
    /\ unit.segment.q4 = unit.segment.q3

----------------------------------------------------------------------------
(* The frame stack on its own: every sequence of iterations that push two  *)
(* frames or none.  Which of the two an iteration does depends in xsort on  *)
(* the frame popped (its ret_addr and elements); here it is arbitrary, the  *)
(* frames' contents are left out, and the stack may hold up to MaxFrames    *)
(* frames.  xrealloc keeps the frames and succeeds (it aborts otherwise).   *)

SomeFrame == Frame(0, 0, ZeroSegment, 0, NotYet)

InitStack ==
    /\ unit = [fn |-> "stack"]
    /\ data = << >>
    /\ input = << >>
    /\ swap = << >>
    /\ cmp = "key_order"
    /\ arg = << >>
    /\ stk = << SomeFrame >>
    /\ frame_capacity = InitCapacity
    /\ pc = "loop"
    /\ oob = FALSE
    /\ iters = 0
    /\ last = [op |-> "none", depth |-> 0, capacity |-> InitCapacity, used |-> {}]

\* one iteration (xsort.c:186-197): the growth check, the pop of
\* stk[stack_depth--], and `pushes` assignments to stk[++stack_depth];
\* last.used is the set of indices of stk the iteration read or wrote
StackIteration(op, pushes) ==
    /\ unit.fn = "stack"
    /\ pc = "loop"
    /\ stack_depth >= 0
    /\ frame_capacity' = Grow(stack_depth, frame_capacity)
    /\ stk' = Below \o [i \in 1 .. pushes |-> SomeFrame]
    /\ last' = [op |-> op, depth |-> stack_depth, capacity |-> frame_capacity,
                used |-> {stack_depth} \cup {(stack_depth - 1) + i : i \in 1 .. pushes}]
    /\ UNCHANGED <<data, swap, cmp, arg, pc, input, oob, iters, unit>>

\* an iteration that schedules a child (xsort.c:207-218, 221-232, 235-246, 249-260)
StackSchedule == Len(stk) < MaxFrames /\ StackIteration("schedule", 2)

\* an iteration that finishes a frame (xsort.c:200-203, 262-285)
StackFinish == StackIteration("finish", 0)

NextStack == StackSchedule \/ StackFinish \/ Return

SpecStack == InitStack /\ [][NextStack]_vars

\* C16 (work-stack capacity): every iteration doubles the capacity exactly
\* when stack_depth + 2 >= frame_capacity held at its top, every index of stk
\* it reads or writes (the pop, the pushes) lies in 0 .. frame_capacity - 1,
\* and the live frames fit the capacity, for every sequence of pushes.
FramesWithinCapacity ==
    /\ stack_depth < frame_capacity
    /\ last.op # "none" =>
          /\ frame_capacity = (IF last.depth + 2 >= last.capacity
                               THEN 2 * last.capacity ELSE last.capacity)
          /\ last.used \subseteq 0 .. (frame_capacity - 1)

\* the capacity has doubled, and a frame was pushed at an index beyond the
\* initial capacity
CapacityWitness ==
    /\ frame_capacity >= 2 * InitCapacity
    /\ last.op = "schedule"
    /\ \E i \in last.used : i >= InitCapacity

----------------------------------------------------------------------------
(* Termination *)

\* The calls whose whole behaviours are checked: the ascending, the strictly
\* descending and a scrambled key table for up to MaxBigLen elements under
\* every comparator that has one answer per pair, and up to MaxLiveAnyLen
\* elements under the comparator that answers arbitrarily.
InitLive ==
    /\ unit = Idle
    /\ \/ \E n \in 0 .. MaxBigLen :
          \E keys \in {Ascending(n, 1), Descending(n, 1), Scrambled(n, 1)} :
          \E c \in Consistent \cup Tables : Start(n, c, keys)
       \/ \E n \in 0 .. MaxLiveAnyLen : Start(n, "any", [h \in 1 .. n |-> 0])

\* xsort is one sequential call: whenever the loop can make another
\* iteration, or return, it does
SpecLive == InitLive /\ [][Next]_vars /\ WF_vars(Next)

\* every frame covers a strictly shorter run than the frame below it
ChildrenShorter ==
    \A i \in 1 .. (Len(stk) - 1) : stk[i + 1].elements < stk[i].elements

\* C17 (termination): for every input length and every comparator the loop
\* eventually finds stack_depth < 0 and xsort returns, with every frame that
\* was pushed popped again; and every child run is strictly shorter than its
\* parent run.
Termination ==
    /\ <>(Returned /\ stack_depth < 0 /\ stk = << >>)
    /\ []ChildrenShorter

\* a call with a comparator that is no ordering pushed and popped frames of
\* two levels below the first and returned
TerminationWitness ==
    /\ Returned /\ cmp \in Broken /\ N >= 32 /\ stk = << >>
    /\ last.op \in Finished /\ last.elements = N

----------------------------------------------------------------------------
(* Properties of the general merge *)

\* the source runs of call c of parity_merge_ctx are sorted
SourceRunsSorted(c) ==
    /\ SortedRun(c.src, c.sb, c.left)
    /\ SortedRun(c.src, c.sb + c.left, c.right)

\* C18 (parity merger precondition inside the engine): every call of
\* parity_merge_ctx made by xsort has 2 <= L <= R <= L + 1, and (for a
\* consistent comparator) both its source runs are sorted when it is made.
MergePrecondition ==
    (last.op = "merge") =>
        /\ Len(last.calls) = 3
        /\ \A k \in 1 .. 3 :
              LET c == last.calls[k]
              IN  /\ 2 <= c.left
                  /\ c.left <= c.right
                  /\ c.right <= c.left + 1
                  /\ cmp \in Consistent => SourceRunsSorted(c)

\* the three calls of a merge of a nested run of odd length: the shortest
\* left run there is, halves of different lengths, all source runs sorted
MergePreconditionWitness ==
    /\ last.op = "merge" /\ cmp = "key_order" /\ last.data > 0
    /\ last.calls[1].left = 2
    /\ last.calls[3].right = last.calls[3].left + 1
    /\ \A k \in 1 .. 3 : SourceRunsSorted(last.calls[k])
    /\ last.calls[3].src # last.before

----------------------------------------------------------------------------
(* Shape of the frame stack *)

\* the indices of the run of frame f
Run(f) == f.data .. (f.data + f.elements - 1)

\* the number of nested partition levels of a run of n elements: a run of
\* more than BaseMax elements is partitioned, and q4 is its longest quarter
RECURSIVE Levels(_)
Levels(n) == IF n <= BaseMax THEN 0 ELSE 1 + Levels(partition_array(n).q4)

\* C19 (stack shape): at the top of every iteration the live frames form a
\* chain of strictly nested runs: every frame below the top is at
\* ret_addr_1..4 with the segment of its run, the frame directly above it
\* covers exactly the quarter it scheduled last, only the top frame can be at
\* ret_addr_0, and there are at most one more frames than the input has
\* nested partition levels.
StackShape ==
    (pc = "loop") =>
        /\ \A i \in 1 .. (Len(stk) - 1) :
              LET f     == stk[i]
                  child == stk[i + 1]
              IN  /\ f.ret_addr \in 1 .. 4
                  /\ f.elements > BaseMax
                  /\ f.segment = partition_array(f.elements)
                  /\ child.data = QuarterBase(f, f.ret_addr)
                  /\ child.elements = QuarterLen(f, f.ret_addr)
                  /\ Run(child) \subseteq Run(f)
                  /\ child.elements < f.elements
        /\ \A i \in 1 .. Len(stk) : stk[i].ret_addr = 0 => i = Len(stk)
        /\ \A i \in 1 .. Len(stk) : Run(stk[i]) \subseteq DOMAIN data
        /\ Len(stk) <= Levels(N) + 1

\* three live frames: the whole input waiting on its third quarter, that
\* quarter waiting on its second quarter, which is about to be entered
StackShapeWitness ==
    /\ pc = "loop" /\ Len(stk) = 3 /\ Levels(N) = 2
    /\ stk[1].ret_addr = 3 /\ stk[2].ret_addr = 2 /\ stk[3].ret_addr = 0
    /\ stk[3].data = stk[1].segment.lh + stk[2].segment.q1

----------------------------------------------------------------------------
(* Write footprint *)

\* buffers a and b agree at every index outside the set S
SameOutside(a, b, S) == \A i \in (DOMAIN a) \ S : a[i] = b[i]

\* C20 (write footprint of a frame): an iteration assigns elements of the
\* caller's buffer only inside the run of the frame it popped, which lies
\* inside the run of every frame still live; so from the pop of a frame at
\* ret_addr_0 until it finishes, with all its descendants, rotations and
\* merges, the caller's buffer outside the frame's run is never assigned and
\* stays what it was at that pop.
WriteFootprint ==
    (last.op # "none") =>
        /\ last.wrote \subseteq Run(last)
        /\ SameOutside(data, last.before, Run(last))
        /\ \A i \in 1 .. Len(stk) :
              stk[i].held # NotYet =>
                 /\ last.wrote \subseteq Run(stk[i])
                 /\ SameOutside(data, stk[i].held, Run(stk[i]))

\* a nested run was merged back from the auxiliary buffer: the iteration
\* assigned every element of the run, changed some, and its parent, which
\* covers more, is still live
WriteFootprintWitness ==
    /\ last.op = "merge" /\ Len(stk) >= 1
    /\ last.data > 0 /\ last.data + last.elements < N
    /\ last.wrote = Run(last)
    /\ data # last.before
    /\ stk[Len(stk)].held # NotYet

=============================================================================
